---- MODULE Spec2Model ----
(***************************************************************************)
(* Model of the distributed wallet script                                  *)
(* (src/scripts/p2p/run-bitcoin-wallet-distributed.js): the module-level   *)
(* wallet view (currentBalance, transactionHistory), one session per peer  *)
(* connection (handlePeerConnection) and the local workflow (the async     *)
(* IIFE), interleaved at its await points by the event loop.               *)
(***************************************************************************)
EXTENDS Integers, Sequences, FiniteSets, TLC

\* ------------------------------------------------------------------ bounds
MaxConns   == 2      \* connections the swarm yields in one run
MaxBalance == 1      \* largest balance value a peer or the backend reports
MaxBatch   == 2      \* longest transactions list carried by a state message
MaxHist    == 2      \* longest transaction history explored
MaxAttempts == 5     \* largest attempt limit retryWithBackoff is given
MaxCalls   == 4      \* calls of the wallet-loading functions in one run
MaxOps     == 2      \* wallet operations in progress at once on the shared client

\* ------------------------------------------------------- program constants
MALFORMED_LIMIT == 3           \* if (malformedMessagesCount > 3)
MAX_RETRIES     == 5           \* const MAX_RETRIES = 5
DEFAULT_DELAY   == 500         \* retryWithBackoff(fn, retries = MAX_RETRIES, delay = 500)
WALLET_NOT_FOUND      == -18   \* error.code === -18, "Wallet does not exist"
WALLET_ALREADY_LOADED == -35   \* error.code === -35, "Wallet already loaded"
WALLET_NAME     == "mywallet"
LocalTx         == "L"         \* the record built by the workflow (lines 212-220)

\* ------------------------------------------------------------- value sets
Conns        == 1..MaxConns
PeerRecords  == {"a", "b"}     \* transaction records a peer can carry
Records      == PeerRecords \cup {LocalTx}
Balances     == (-1)..MaxBalance            \* balances a peer may advertise
BackendBalances == 0..MaxBalance            \* getbalance results
Max(x, y)    == IF x >= y THEN x ELSE y

RECURSIVE SeqsUpTo(_, _)
SeqsUpTo(S, n) ==
    IF n = 0 THEN {<<>>}
    ELSE LET shorter == SeqsUpTo(S, n - 1)
         IN  shorter \cup {Append(s, x) : s \in {t \in shorter : Len(t) = n - 1}, x \in S}

TxLists == SeqsUpTo(PeerRecords, MaxBatch)

\* An inbound chunk, described by what JSON.parse(data.toString()) makes of
\* it and by the properties the handler reads:
\*   parse = "garbage" : JSON.parse throws
\*   parse = "null"    : parses to null (reading .type throws)
\*   parse = "obj"     : any other value; type = "none" when it has no type
\*   hasData           : message.data is neither undefined nor null
\*   hasBalance/hasTxs : message.data.balance / .transactions are present
Blank == [parse |-> "obj", type |-> "none", hasData |-> FALSE, record |-> "a",
          hasBalance |-> FALSE, balance |-> 0, hasTxs |-> FALSE, txs |-> <<>>]

Chunks ==
    {[Blank EXCEPT !.parse = p] : p \in {"garbage", "null"}}
    \cup {[Blank EXCEPT !.type = t] :
            t \in {"none", "unknown", "state-request", "transaction", "state"}}
    \cup {[Blank EXCEPT !.type = "transaction", !.hasData = TRUE, !.record = r] :
            r \in PeerRecords}
    \cup {[Blank EXCEPT !.type = "state", !.hasData = TRUE, !.hasTxs = TRUE, !.txs = l] :
            l \in {<<"a">>}}
    \cup {[Blank EXCEPT !.type = "state", !.hasData = TRUE,
                        !.hasBalance = TRUE, !.balance = b] : b \in Balances}
    \cup {[Blank EXCEPT !.type = "state", !.hasData = TRUE,
                        !.hasBalance = TRUE, !.balance = b,
                        !.hasTxs = TRUE, !.txs = l] : b \in Balances, l \in TxLists}

\* --------------------------------------------------------------- variables
VARIABLES
    currentBalance,          \* let currentBalance
    transactionHistory,      \* const transactionHistory
    status,                  \* per connection: "new" (not yet yielded), "open", "closed"
    connections,             \* swarm.connections, in insertion order
    malformedMessagesCount,  \* the closure variable of each live session
    writeFails,              \* connections whose write() throws
    out,                     \* what the last step wrote, per connection
    last,                    \* history: the event the last step handled
    pc,                      \* where the workflow is suspended
    txId,                    \* result of sendBitcoin ("none" before)
    isVerified,              \* result of verifyTransaction ("none" before)
    maxObtained,             \* history: largest balance value obtained so far
    maxSinceLocal,           \* history: largest value since the last workflow assignment
    retry,                   \* one activation of retryWithBackoff (its locals)
    pair,                    \* two instances of the script connected to each other
    loader,                  \* one activation of ensureWalletExists or loadWallet
    handler,                 \* the data handler that is on the stack, if any
    client                   \* the shared RPC client and the wallet operations using it

vars == <<currentBalance, transactionHistory, status, connections,
          malformedMessagesCount, writeFails, out, last, pc, txId,
          maxObtained, maxSinceLocal, isVerified, retry, pair, loader, handler,
          client>>

\* what the sessions and the workflow, line 206 apart, leave alone
elsewhere == <<retry, pair, loader, handler, client, isVerified>>

NoWrites == [c \in Conns |-> <<>>]

\* ------------------------------------------------------------ wire messages
\* broadcastState builds this object (lines 72-79).
StateMessage(bal, hist) ==
    [type |-> "state", walletName |-> WALLET_NAME, balance |-> bal,
     transactions |-> hist, record |-> "none"]

\* variant of lines 72-80: the view of load time is sent, not the current one
broadcastState_stale(bal, hist) == <<StateMessage(0, <<>>)>>

\* broadcastState(connection), lines 71-81: what it writes to the connection
\* when the view is (bal, hist).
broadcastState(bal, hist) == <<StateMessage(bal, hist)>>

\* the workflow builds this object (lines 212-220).
TransactionMessage(rec) ==
    [type |-> "transaction", walletName |-> WALLET_NAME, balance |-> 0,
     transactions |-> <<>>, record |-> rec]


\* ----------------------------------------------------------- the transport
\* A session's closure (handlePeerConnection's locals and handlers) lives as
\* long as its connection: sessions are the domain of malformedMessagesCount.
Sessions == DOMAIN malformedMessagesCount

Drop(f, c) == [d \in (DOMAIN f) \ {c} |-> f[d]]

\* swarm.connections is a Set: removing keeps the insertion order of the rest.
Remove(conns, c) == SelectSeq(conns, LAMBDA x : x # c)

Active == {connections[i] : i \in 1..Len(connections)}

\* ------------------------------------------------ the 'data' handler's code
\* What the try block (lines 96-118) leaves behind: the view when it ends or
\* throws, whether broadcastState wrote, and whether an exception reached the
\* catch.
Outcome(bal, hist, wrote, threw) ==
    [balance |-> bal, history |-> hist, wrote |-> wrote, threw |-> threw]

\* variants of line 111: any different balance wins; an equal balance wins too
StateAccepts_anyDifferent(incoming, bal) == incoming # bal

StateAccepts_orEqual(incoming, bal) == incoming >= bal

\* variant of line 111: the balances are compared by magnitude
StateAccepts_byMagnitude(incoming, bal) == incoming * incoming > bal * bal

\* line 111: message.data.balance > currentBalance
StateAccepts(incoming, bal) == incoming > bal

\* variant of line 123: the third malformed message already closes
TooManyMalformed_atLimit(n) == n >= MALFORMED_LIMIT

\* line 123: malformedMessagesCount > 3
TooManyMalformed(n) == n > MALFORMED_LIMIT

\* variant of lines 100-103: a record already in the history is skipped
TransactionBranch_dedup(m, bal, hist) ==
    IF ~m.hasData
    THEN Outcome(bal, hist, FALSE, TRUE)
    ELSE IF \E i \in 1..Len(hist) : hist[i] = m.record
         THEN Outcome(bal, hist, FALSE, FALSE)
         ELSE Outcome(bal, Append(hist, m.record), FALSE, FALSE)

\* lines 100-103: destructuring message.data throws when it is absent,
\* before the push.
TransactionBranch(m, bal, hist) ==
    IF ~m.hasData
    THEN Outcome(bal, hist, FALSE, TRUE)
    ELSE Outcome(bal, Append(hist, m.record), FALSE, FALSE)

\* variant of lines 104-106: the request is logged and not answered
StateRequestBranch_silent(bal, hist, writable) == Outcome(bal, hist, FALSE, FALSE)

\* lines 104-106: broadcastState(connection); a throwing write is caught
\* by the handler's own catch.
StateRequestBranch(bal, hist, writable) ==
    IF writable
    THEN Outcome(bal, hist, TRUE, FALSE)
    ELSE Outcome(bal, hist, FALSE, TRUE)

\* variant of lines 107-115: the incoming list replaces the history
StateBranch_replace(m, bal, hist) ==
    IF ~m.hasData
    THEN Outcome(bal, hist, FALSE, TRUE)
    ELSE IF m.hasBalance /\ m.balance > bal
         THEN IF m.hasTxs
              THEN Outcome(m.balance, m.txs, FALSE, FALSE)
              ELSE Outcome(m.balance, hist, FALSE, TRUE)
         ELSE Outcome(bal, hist, FALSE, FALSE)

\* lines 107-115: reading message.data.balance throws when data is absent;
\* an absent balance compares false; spreading an absent transactions list
\* throws after currentBalance has been assigned.
StateBranch(m, bal, hist) ==
    IF ~m.hasData
    THEN Outcome(bal, hist, FALSE, TRUE)
    ELSE IF m.hasBalance /\ StateAccepts(m.balance, bal)
         THEN IF m.hasTxs
              THEN Outcome(m.balance, hist \o m.txs, FALSE, FALSE)
              ELSE Outcome(m.balance, hist, FALSE, TRUE)
         ELSE Outcome(bal, hist, FALSE, FALSE)

\* variant of lines 116-118: an unrecognized type is an error
TryBlock_strict(m, bal, hist, writable) ==
    IF m.parse = "garbage" THEN Outcome(bal, hist, FALSE, TRUE)
    ELSE IF m.parse = "null" THEN Outcome(bal, hist, FALSE, TRUE)
    ELSE IF m.type = "transaction" THEN TransactionBranch(m, bal, hist)
    ELSE IF m.type = "state-request" THEN StateRequestBranch(bal, hist, writable)
    ELSE IF m.type = "state" THEN StateBranch(m, bal, hist)
    ELSE Outcome(bal, hist, FALSE, TRUE)

\* lines 96-118
TryBlock(m, bal, hist, writable) ==
    IF m.parse = "garbage" THEN Outcome(bal, hist, FALSE, TRUE)
    ELSE IF m.parse = "null" THEN Outcome(bal, hist, FALSE, TRUE)
    ELSE IF m.type = "transaction" THEN TransactionBranch(m, bal, hist)
    ELSE IF m.type = "state-request" THEN StateRequestBranch(bal, hist, writable)
    ELSE IF m.type = "state" THEN StateBranch(m, bal, hist)
    ELSE Outcome(bal, hist, FALSE, FALSE)

\* variant of line 120: the catch block does not count
CountAfter_never(n, threw) == n

\* lines 119-127: the counter after the catch block
CountAfter(n, threw) == IF threw THEN n + 1 ELSE n

\* variant of lines 123-126: the connection is never destroyed
Destroys_never(n, threw) == FALSE

\* lines 123-126: whether the catch block calls connection.destroy()
Destroys(n, threw) == threw /\ TooManyMalformed(CountAfter(n, threw))

\* the chunk {"type": "state-request"}
StateRequest == [Blank EXCEPT !.type = "state-request"]

\* a state message that carries a balance
CarriesBalance(m) ==
    m.parse = "obj" /\ m.type = "state" /\ m.hasData /\ m.hasBalance

\* The kind of inbound chunk, relative to the balance it meets.
Class(m, bal) ==
    IF m.parse = "garbage" THEN "unparseable"
    ELSE IF m.parse = "null" THEN "null"
    ELSE IF m.type = "none" THEN "no-type"
    ELSE IF m.type = "unknown" THEN "unknown-type"
    ELSE IF m.type = "state-request" THEN "state-request"
    ELSE IF m.type = "transaction"
         THEN IF m.hasData THEN "transaction" ELSE "transaction-no-payload"
    ELSE IF ~m.hasData THEN "state-no-payload"
    ELSE IF ~m.hasBalance THEN "state-no-balance"
    ELSE IF m.balance <= bal THEN "state-not-higher"
    ELSE IF m.hasTxs THEN "state-higher" ELSE "state-higher-no-list"

\* What the last step handled: the name of the event (for inbound data the
\* class of the chunk) and, for the chunks that carry something into the
\* view, the chunk itself; of a state message that advertises a negative
\* balance, the balance.
Event(class, m) == [class |-> class, chunk |-> m]

Carried(m, bal) ==
    IF Class(m, bal) \in {"transaction", "state-higher", "state-higher-no-list"}
    THEN m
    ELSE IF CarriesBalance(m) /\ m.balance < 0
         THEN [Blank EXCEPT !.type = "state", !.hasData = TRUE,
                            !.hasBalance = TRUE, !.balance = m.balance]
         ELSE Blank

\* --------------------------------------------------------- retryWithBackoff
\* One activation of retryWithBackoff(fn, retries, delay), lines 38-49.  Its
\* locals are attempt and delay; at is the await it is suspended at ("call":
\* fn(), "wait": the timer) or how it ended ("returned", "thrown").  The rest
\* is history: base is the delay it was given, calls counts the invocations
\* of fn, outcomes lists how they settled, waits lists the timers set.
FnValues == {"v1", "v2"}       \* what fn resolves with
FnErrors == {"e1", "e2"}       \* what fn rejects with
BaseDelays == {DEFAULT_DELAY, 100}

Pow2(n) == 2 ^ n

NotCalled ==
    [at |-> "idle", retries |-> 0, base |-> 0, delay |-> 0, attempt |-> 0,
     calls |-> 0, outcomes |-> <<>>, waits |-> <<>>, result |-> "none",
     error |-> "none"]

\* variant of line 46: the delay stays what it was
NextDelay_constant(d) == d

\* line 46: delay *= 2
NextDelay(d) == d * 2

\* variant of line 43: no attempt is taken for the last one
LastAttempt_never(attempt, retries) == FALSE

\* line 43: attempt === retries
LastAttempt(attempt, retries) == attempt = retries

\* line 39: attempt <= retries
LoopContinues(attempt, retries) == attempt <= retries

\* lines 38-41: the function is entered, the loop starts with attempt = 1 and
\* fn is invoked for the first time.
Entered(retries, delay) ==
    IF LoopContinues(1, retries)
    THEN [NotCalled EXCEPT !.at = "call", !.retries = retries, !.base = delay,
                           !.delay = delay, !.attempt = 1, !.calls = 1]
    ELSE [NotCalled EXCEPT !.at = "returned", !.retries = retries, !.base = delay,
                           !.delay = delay, !.attempt = 1, !.result = "undefined"]

\* ------------------------------------------- ensureWalletExists, loadWallet
\* One activation of ensureWalletExists or loadWallet (src/wallet/wallet.js).
\* at is the RPC command it awaits ("loadwallet", "createwallet") or how it
\* ended ("returned", "thrown", with the error's code).  The backend holds the
\* wallet as "absent", "unloaded" (on disk) or "loaded".  History: the wallet
\* state on entry, the commands issued, the code loadwallet failed with
\* (0: it succeeded) and whether a command failed for another reason.
WalletStates == {"absent", "unloaded", "loaded"}
LoaderFns    == {"ensureWalletExists", "loadWallet"}
OtherCodes   == {-4, -28}      \* a miscellaneous wallet error, node warming up
ErrorCodes   == {WALLET_NOT_FOUND, WALLET_ALREADY_LOADED} \cup OtherCodes

NotLoading(wallet) ==
    [fn |-> "none", at |-> "idle", wallet |-> wallet, entry |-> wallet,
     issued |-> <<>>, loadCode |-> 0, error |-> 0, faulted |-> FALSE, calls |-> 0]

\* what the node answers to loadwallet, the wallet being in state w: 0 for
\* success, else the error's code
LoadAnswer(w) ==
    IF w = "absent" THEN WALLET_NOT_FOUND
    ELSE IF w = "loaded" THEN WALLET_ALREADY_LOADED
    ELSE 0

\* what the node answers to createwallet
CreateAnswer(w) == IF w = "absent" THEN 0 ELSE -4

\* variant of lines 66-74: any failure of loadwallet is answered by creating
EnsureOnLoadError_alwaysCreates(code) == "create"

\* ensureWalletExists, lines 65-75: what the catch block does with the code
EnsureOnLoadError(code) ==
    IF code = WALLET_NOT_FOUND THEN "create"
    ELSE IF code = WALLET_ALREADY_LOADED THEN "return"
    ELSE "throw"

\* variant of lines 46-52: a missing wallet is passed over as well
LoadOnError_absorbsMissing(code) ==
    IF code \in {WALLET_ALREADY_LOADED, WALLET_NOT_FOUND} THEN "return" ELSE "throw"

\* loadWallet, lines 46-52
LoadOnError(code) ==
    IF code = WALLET_ALREADY_LOADED THEN "return" ELSE "throw"

\* ------------------------------------------------ the wallet operations
\* The arguments are JavaScript values: a number, NaN, a string (a sequence
\* of one-character strings), undefined, null or a boolean.
Num(k)  == [t |-> "number", n |-> k, s |-> <<>>, b |-> FALSE]
NaNv    == [t |-> "NaN", n |-> 0, s |-> <<>>, b |-> FALSE]
Str(cs) == [t |-> "string", n |-> 0, s |-> cs, b |-> FALSE]
Undef   == [t |-> "undefined", n |-> 0, s |-> <<>>, b |-> FALSE]
Null    == [t |-> "null", n |-> 0, s |-> <<>>, b |-> FALSE]
Bool(v) == [t |-> "boolean", n |-> 0, s |-> <<>>, b |-> v]

Digits == <<"0", "1", "2", "3", "4", "5", "6", "7", "8", "9">>
IsDigit(ch) == \E i \in 1..10 : Digits[i] = ch
DigitValue(ch) == (CHOOSE i \in 1..10 : Digits[i] = ch) - 1

\* String.prototype.trim
RECURSIVE TrimLeft(_)
TrimLeft(cs) == IF cs # <<>> /\ Head(cs) = " " THEN TrimLeft(Tail(cs)) ELSE cs

RECURSIVE TrimRight(_)
TrimRight(cs) ==
    IF cs # <<>> /\ cs[Len(cs)] = " " THEN TrimRight(SubSeq(cs, 1, Len(cs) - 1)) ELSE cs

Trim(cs) == TrimRight(TrimLeft(cs))

RECURSIVE DigitsValue(_)
DigitsValue(cs) ==
    IF cs = <<>> THEN 0 ELSE 10 * DigitsValue(SubSeq(cs, 1, Len(cs) - 1)) + DigitValue(cs[Len(cs)])

\* Number(value), as isNaN and <= apply it: [nan, n].  A string is trimmed;
\* the empty string is 0, decimal digits with an optional sign their value,
\* anything else NaN.
NumberOfString(cs) ==
    LET t == Trim(cs)
        neg == t # <<>> /\ Head(t) = "-"
        ds == IF neg THEN Tail(t) ELSE t
    IN  IF t = <<>> THEN [nan |-> FALSE, n |-> 0]
        ELSE IF ds # <<>> /\ \A i \in 1..Len(ds) : IsDigit(ds[i])
             THEN [nan |-> FALSE, n |-> IF neg THEN 0 - DigitsValue(ds) ELSE DigitsValue(ds)]
             ELSE [nan |-> TRUE, n |-> 0]

ToNumber(v) ==
    CASE v.t = "number" -> [nan |-> FALSE, n |-> v.n]
      [] v.t = "NaN" -> [nan |-> TRUE, n |-> 0]
      [] v.t = "string" -> NumberOfString(v.s)
      [] v.t = "undefined" -> [nan |-> TRUE, n |-> 0]
      [] v.t = "null" -> [nan |-> FALSE, n |-> 0]
      [] v.t = "boolean" -> [nan |-> FALSE, n |-> IF v.b THEN 1 ELSE 0]

\* validateWalletName, lines 19-23: TRUE when it throws
validateWalletName(walletName) ==
    walletName.t # "string" \/ Trim(walletName.s) = <<>>

\* validateAmount, lines 30-34: TRUE when it throws.
\* isNaN(amount) || amount <= 0
validateAmount(amount) ==
    ToNumber(amount).nan \/ ToNumber(amount).n <= 0

WalletFns == {"createWallet", "sendBitcoin", "fundWallet", "checkBalance",
              "generateNewAddress"}
ValidNames == {Str(<<"w", "1">>), Str(<<"w", "2">>)}
NameValues == ValidNames \cup {Str(<<>>), Str(<<" ">>), Undef, Num(1)}
AmountValues == {Num(1), Num(0), Num(-1), NaNv, Undef, Null, Bool(TRUE),
                 Str(<<"5">>), Str(<<"a">>), Str(<<>>)}

Ops == 1..MaxOps

\* One operation: the function, its arguments, the await it is suspended at
\* (or "returned", "thrown"); history: the RPC commands it has issued so far
\* and the client's wallet when it was called.
NoOp == [fn |-> "none", name |-> Undef, amount |-> Undef, at |-> "idle",
         rpcs |-> 0, selected |-> Undef]

\* the last command handed to client.command, with the wallet selected then
NoCommand == [op |-> 0, cmd |-> "none", wallet |-> Undef, name |-> Undef]

NoClientUse == [wallet |-> Undef, op |-> [o \in Ops |-> NoOp], issued |-> NoCommand]

\* client.command(cmd, ...) called by operation o with the wallet w selected
Issue(o, cmd, w, name) == [op |-> o, cmd |-> cmd, wallet |-> w, name |-> name]

\* ------------------------------------------------- the handler, line by line
\* The data handler is a synchronous function: the event loop calls the next
\* callback, or resumes the workflow, only when no callback is on the stack.
\* The one handler run that assigns the view twice is the merge of a state
\* message (line 113, then line 114); handler holds that run between the two
\* lines: at = "append", the connection and the chunk.
NoHandler == [at |-> "idle", conn |-> 0, chunk |-> Blank]

\* variant: callbacks run in parallel, one may start while another is on the stack
Dispatches_preemptive(h) == TRUE

\* the event loop takes the next event when the stack is empty
Dispatches(h) == h.at = "idle"

MergeClasses == {"state-higher", "state-higher-no-list"}

\* ---------------------------------------------------- two connected peers
\* Two processes run the script and find each other on the topic.  Each has
\* its own view, workflow position and session for the one connection; wire[p]
\* holds the chunks written to p's end and not yet handled, in order.
Peers == {1, 2}
Other(p) == 3 - p

\* the record each workflow builds (lines 212-220): the ids differ
TxOf(p) == IF p = 1 THEN "a" ELSE "b"

NoPair ==
    [balance |-> [p \in Peers |-> 0], history |-> [p \in Peers |-> <<>>],
     pc |-> [p \in Peers |-> "idle"], conn |-> [p \in Peers |-> "new"],
     malformed |-> [p \in Peers |-> 0], wire |-> [p \in Peers |-> <<>>]]

\* JSON.parse (line 97) of what JSON.stringify (lines 80, 222) made of the
\* object: the chunk the receiving handler sees.
Decode(msg) ==
    IF msg.type = "state"
    THEN [Blank EXCEPT !.type = "state", !.hasData = TRUE,
                       !.hasBalance = TRUE, !.balance = msg.balance,
                       !.hasTxs = TRUE, !.txs = msg.transactions]
    ELSE [Blank EXCEPT !.type = msg.type, !.hasData = TRUE, !.record = msg.record]

\* the awaits of lines 187-206 whose results do not reach the view
NextStage(stage) ==
    CASE stage = "createWallet" -> "fundWallet"
      [] stage = "fundWallet" -> "checkBalance1"
      [] stage = "checkBalance1" -> "generateNewAddress"
      [] stage = "generateNewAddress" -> "sendBitcoin"
      [] stage = "sendBitcoin" -> "verifyTransaction"
      [] stage = "verifyTransaction" -> "checkBalance2"
      [] stage = "checkBalance2" -> "done"

\* ------------------------------------------------------------------ actions
\* the script has been loaded: nothing connected, the workflow at its first await
ModuleLoaded ==
    /\ currentBalance = 0
    /\ transactionHistory = <<>>
    /\ status = [c \in Conns |-> "new"]
    /\ connections = <<>>
    /\ malformedMessagesCount = [c \in {} |-> 0]
    /\ writeFails = {}
    /\ out = NoWrites
    /\ last = Event("start", Blank)
    /\ pc = "createWallet"
    /\ txId = "none"
    /\ isVerified = "none"
    /\ maxObtained = 0
    /\ maxSinceLocal = 0

\* the module has been loaded: nothing connected, the workflow at its first await
Init ==
    /\ ModuleLoaded
    /\ retry = NotCalled
    /\ pair = NoPair
    /\ loader = NotLoading("loaded")
    /\ handler = NoHandler
    /\ client = NoClientUse

\* variant of line 90: the counter is shared, a new session goes on from the
\* highest count reached by a live one
Connect_sharedCounter(c) ==
    /\ status[c] = "new"
    /\ \A d \in Conns : d < c => status[d] # "new"
    /\ status' = [status EXCEPT ![c] = "open"]
    /\ connections' = Append(connections, c)
    /\ malformedMessagesCount' =
         [d \in Sessions \cup {c} |->
            IF d # c THEN malformedMessagesCount[d]
            ELSE IF \E e \in Sessions : malformedMessagesCount[e] > 0 THEN 1 ELSE 0]
    /\ last' = Event("connect", Blank)
    /\ out' = [NoWrites EXCEPT
                 ![c] = broadcastState(currentBalance, transactionHistory)]
    /\ UNCHANGED <<elsewhere, currentBalance, transactionHistory, writeFails, pc, txId,
                   maxObtained, maxSinceLocal>>

\* swarm.on('connection', handlePeerConnection), lines 87-95: a new session
\* with its own counter, the initial state push, the handlers registered.
\* Connections are numbered in the order the swarm yields them.
Connect(c) ==
    /\ status[c] = "new"
    /\ \A d \in Conns : d < c => status[d] # "new"
    /\ status' = [status EXCEPT ![c] = "open"]
    /\ connections' = Append(connections, c)
    /\ malformedMessagesCount' =
         [d \in Sessions \cup {c} |-> IF d = c THEN 0 ELSE malformedMessagesCount[d]]
    /\ last' = Event("connect", Blank)
    /\ out' = [NoWrites EXCEPT
                 ![c] = broadcastState(currentBalance, transactionHistory)]
    /\ UNCHANGED <<elsewhere, currentBalance, transactionHistory, writeFails, pc, txId,
                   maxObtained, maxSinceLocal>>

\* connection.on('data', ...), lines 95-128, run to completion.
OnData(c, m) ==
    /\ status[c] = "open"
    /\ LET r == TryBlock(m, currentBalance, transactionHistory, c \notin writeFails)
           destroy == Destroys(malformedMessagesCount[c], r.threw)
       IN  /\ Len(r.history) <= MaxHist
           /\ currentBalance' = r.balance
           /\ transactionHistory' = r.history
           /\ malformedMessagesCount' =
                IF destroy
                THEN Drop(malformedMessagesCount, c)
                ELSE [malformedMessagesCount EXCEPT ![c] = CountAfter(@, r.threw)]
           /\ out' = [NoWrites EXCEPT
                        ![c] = IF r.wrote
                               THEN broadcastState(currentBalance, transactionHistory)
                               ELSE <<>>]
           /\ status' = IF destroy THEN [status EXCEPT ![c] = "closed"] ELSE status
           /\ connections' = IF destroy THEN Remove(connections, c) ELSE connections
           /\ writeFails' = IF destroy THEN writeFails \ {c} ELSE writeFails
    /\ maxObtained' = IF CarriesBalance(m) THEN Max(maxObtained, m.balance)
                      ELSE maxObtained
    /\ maxSinceLocal' = IF CarriesBalance(m) THEN Max(maxSinceLocal, m.balance)
                        ELSE maxSinceLocal
    /\ last' = Event(Class(m, currentBalance), Carried(m, currentBalance))
    /\ UNCHANGED <<elsewhere, pc, txId>>

\* connection.on('close', ...), lines 130-132: the peer went away; the
\* handler only logs, the swarm drops the connection from its set.
PeerClose(c) ==
    /\ status[c] = "open"
    /\ status' = [status EXCEPT ![c] = "closed"]
    /\ connections' = Remove(connections, c)
    /\ writeFails' = writeFails \ {c}
    /\ last' = Event("close", Blank)
    /\ malformedMessagesCount' = Drop(malformedMessagesCount, c)
    /\ out' = NoWrites
    /\ UNCHANGED <<elsewhere, currentBalance, transactionHistory,
                   pc, txId, maxObtained, maxSinceLocal>>

\* transport fault: from now on write() on this connection throws.
ConnBreak(c) ==
    /\ status[c] = "open"
    /\ c \notin writeFails
    /\ writeFails' = writeFails \cup {c}
    /\ last' = Event("break", Blank)
    /\ out' = NoWrites
    /\ UNCHANGED <<elsewhere, currentBalance, transactionHistory, status, connections,
                   malformedMessagesCount, pc, txId, maxObtained, maxSinceLocal>>

\* variant of lines 139-141: a swarm error tears the sessions down
SwarmError_fatal ==
    /\ status' = [c \in Conns |-> IF status[c] = "open" THEN "closed" ELSE status[c]]
    /\ connections' = <<>>
    /\ malformedMessagesCount' = [c \in {} |-> 0]
    /\ writeFails' = {}
    /\ last' = Event("swarm-error", Blank)
    /\ out' = NoWrites
    /\ UNCHANGED <<elsewhere, currentBalance, transactionHistory,
                   pc, txId, maxObtained, maxSinceLocal>>

\* swarm.on('error', ...), lines 139-141: the handler logs the error.
SwarmError ==
    /\ last' = Event("swarm-error", Blank)
    /\ out' = NoWrites
    /\ UNCHANGED <<elsewhere, currentBalance, transactionHistory, status, connections,
                   malformedMessagesCount, writeFails, pc, txId,
                   maxObtained, maxSinceLocal>>

\* ------------------------------------------------------------- the workflow
\* The async function of lines 184-231 is suspended at one await at a time;
\* pc names the call it is waiting for.  Each action below is the code that
\* runs when that call settles, up to the next await.

\* lines 187-191: createWallet resolved; fundWallet is called.
CreateWalletDone ==
    /\ pc = "createWallet"
    /\ pc' = "fundWallet"
    /\ last' = Event("CreateWalletDone", Blank)
    /\ out' = NoWrites
    /\ UNCHANGED <<elsewhere, currentBalance, transactionHistory, status, connections,
                   malformedMessagesCount, writeFails, txId,
                   maxObtained, maxSinceLocal>>

\* lines 191-194: fundWallet resolved; checkBalance is called.
FundWalletDone ==
    /\ pc = "fundWallet"
    /\ pc' = "checkBalance1"
    /\ last' = Event("FundWalletDone", Blank)
    /\ out' = NoWrites
    /\ UNCHANGED <<elsewhere, currentBalance, transactionHistory, status, connections,
                   malformedMessagesCount, writeFails, txId,
                   maxObtained, maxSinceLocal>>

\* variant of line 194: the backend's value is merged like a peer's
CheckInitialBalance_keepMax(b) ==
    /\ pc = "checkBalance1"
    /\ currentBalance' = Max(currentBalance, b)
    /\ maxObtained' = Max(maxObtained, b)
    /\ maxSinceLocal' = b
    /\ pc' = "generateNewAddress"
    /\ last' = Event("CheckInitialBalance", Blank)
    /\ out' = NoWrites
    /\ UNCHANGED <<elsewhere, transactionHistory, status, connections,
                   malformedMessagesCount, writeFails, txId>>

\* lines 194-198: currentBalance = await checkBalance(WALLET_NAME)
CheckInitialBalance(b) ==
    /\ pc = "checkBalance1"
    /\ currentBalance' = b
    /\ maxObtained' = Max(maxObtained, b)
    /\ maxSinceLocal' = b
    /\ pc' = "generateNewAddress"
    /\ last' = Event("CheckInitialBalance", Blank)
    /\ out' = NoWrites
    /\ UNCHANGED <<elsewhere, transactionHistory, status, connections,
                   malformedMessagesCount, writeFails, txId>>

\* lines 198-202: generateNewAddress resolved; sendBitcoin is called.
GenerateAddressDone ==
    /\ pc = "generateNewAddress"
    /\ pc' = "sendBitcoin"
    /\ last' = Event("GenerateAddressDone", Blank)
    /\ out' = NoWrites
    /\ UNCHANGED <<elsewhere, currentBalance, transactionHistory, status, connections,
                   malformedMessagesCount, writeFails, txId,
                   maxObtained, maxSinceLocal>>

\* variant of lines 202-203: the transaction sent is entered in the local
\* history
SendBitcoinDone_recordsTx ==
    /\ pc = "sendBitcoin"
    /\ txId' = LocalTx
    /\ transactionHistory' = Append(transactionHistory, LocalTx)
    /\ pc' = "verifyTransaction"
    /\ last' = Event("SendBitcoinDone", Blank)
    /\ out' = NoWrites
    /\ UNCHANGED <<elsewhere, currentBalance, status, connections,
                   malformedMessagesCount, writeFails,
                   maxObtained, maxSinceLocal>>

\* lines 202-206: sendBitcoin resolved with the transaction id;
\* verifyTransaction is called.
SendBitcoinDone ==
    /\ pc = "sendBitcoin"
    /\ txId' = LocalTx
    /\ pc' = "verifyTransaction"
    /\ last' = Event("SendBitcoinDone", Blank)
    /\ out' = NoWrites
    /\ UNCHANGED <<elsewhere, currentBalance, transactionHistory, status, connections,
                   malformedMessagesCount, writeFails,
                   maxObtained, maxSinceLocal>>

\* line 222: swarm.connections.forEach(conn => conn.write(...)) visits the
\* connections in insertion order and stops at the first write that throws.
RECURSIVE WrittenBeforeThrow(_, _)
WrittenBeforeThrow(conns, failing) ==
    IF conns = <<>> \/ Head(conns) \in failing
    THEN {}
    ELSE {Head(conns)} \cup WrittenBeforeThrow(Tail(conns), failing)

BroadcastThrows(conns, failing) ==
    \E i \in 1..Len(conns) : conns[i] \in failing

\* variant of line 222: the message is written a second time for good measure
VerifyDone_resends(verified) ==
    /\ pc = "verifyTransaction"
    /\ isVerified' = (IF verified THEN "true" ELSE "false")
    /\ last' = Event("VerifyDone", Blank)
    /\ out' = [c \in Conns |->
                 IF c \in WrittenBeforeThrow(connections, writeFails)
                 THEN <<TransactionMessage(txId), TransactionMessage(txId)>>
                 ELSE <<>>]
    /\ pc' = IF BroadcastThrows(connections, writeFails)
             THEN "halted" ELSE "checkBalance2"
    /\ UNCHANGED <<retry, pair, loader, handler, client, currentBalance,
                   transactionHistory, status, connections,
                   malformedMessagesCount, writeFails, txId,
                   maxObtained, maxSinceLocal>>

\* variant of lines 206-209: a transaction that could not be verified ends
\* the run
VerifyDone_haltsUnverified(verified) ==
    /\ pc = "verifyTransaction"
    /\ isVerified' = (IF verified THEN "true" ELSE "false")
    /\ last' = Event("VerifyDone", Blank)
    /\ out' = [c \in Conns |->
                 IF verified /\ c \in WrittenBeforeThrow(connections, writeFails)
                 THEN <<TransactionMessage(txId)>>
                 ELSE <<>>]
    /\ pc' = IF ~verified \/ BroadcastThrows(connections, writeFails)
             THEN "halted" ELSE "checkBalance2"
    /\ UNCHANGED <<retry, pair, loader, handler, client, currentBalance,
                   transactionHistory, status, connections,
                   malformedMessagesCount, writeFails, txId,
                   maxObtained, maxSinceLocal>>

\* lines 206-225: verifyTransaction resolved (true or false, it never
\* throws); the transaction is written to every connection and checkBalance
\* is called.  A throwing write lands in the catch of line 227.
VerifyDone(verified) ==
    /\ pc = "verifyTransaction"
    /\ isVerified' = (IF verified THEN "true" ELSE "false")
    /\ last' = Event("VerifyDone", Blank)
    /\ out' = [c \in Conns |->
                 IF c \in WrittenBeforeThrow(connections, writeFails)
                 THEN <<TransactionMessage(txId)>>
                 ELSE <<>>]
    /\ pc' = IF BroadcastThrows(connections, writeFails)
             THEN "halted" ELSE "checkBalance2"
    /\ UNCHANGED <<retry, pair, loader, handler, client, currentBalance,
                   transactionHistory, status, connections,
                   malformedMessagesCount, writeFails, txId,
                   maxObtained, maxSinceLocal>>

\* lines 225-226: currentBalance = await checkBalance(WALLET_NAME)
CheckUpdatedBalance(b) ==
    /\ pc = "checkBalance2"
    /\ currentBalance' = b
    /\ maxObtained' = Max(maxObtained, b)
    /\ maxSinceLocal' = b
    /\ pc' = "done"
    /\ last' = Event("CheckUpdatedBalance", Blank)
    /\ out' = NoWrites
    /\ UNCHANGED <<elsewhere, transactionHistory, status, connections,
                   malformedMessagesCount, writeFails, txId>>

\* lines 227-230: an awaited wallet call rejected; the catch logs and the
\* function ends.  verifyTransaction never rejects (lines 57-64).
Rejecting == {"createWallet", "fundWallet", "checkBalance1",
              "generateNewAddress", "sendBitcoin", "checkBalance2"}

\* variant of lines 227-230: the failure is logged and the run goes on to the
\* broadcast
WorkflowFails_goesOn ==
    /\ pc \in Rejecting
    /\ pc' = "verifyTransaction"
    /\ last' = Event("WorkflowFails", Blank)
    /\ out' = NoWrites
    /\ UNCHANGED <<elsewhere, currentBalance, transactionHistory, status, connections,
                   malformedMessagesCount, writeFails, txId,
                   maxObtained, maxSinceLocal>>

WorkflowFails ==
    /\ pc \in Rejecting
    /\ pc' = "halted"
    /\ last' = Event("WorkflowFails", Blank)
    /\ out' = NoWrites
    /\ UNCHANGED <<elsewhere, currentBalance, transactionHistory, status, connections,
                   malformedMessagesCount, writeFails, txId,
                   maxObtained, maxSinceLocal>>

\* ------------------------------------------------- retryWithBackoff's steps
walletVars == <<currentBalance, transactionHistory, status, connections,
                malformedMessagesCount, writeFails, out, last, pc, txId,
                maxObtained, maxSinceLocal, isVerified>>

\* line 41: fn() resolved with v; return await fn() ends the function.
FnResolves(v) ==
    /\ retry.at = "call"
    /\ retry' = [retry EXCEPT !.at = "returned", !.result = v,
                              !.outcomes = Append(@, [ok |-> TRUE, value |-> v])]
    /\ UNCHANGED <<walletVars, pair, loader, handler, client>>

\* lines 42-45: fn() rejected with e; the last attempt rethrows it, any other
\* sets the timer for the current delay.
FnRejects(e) ==
    /\ retry.at = "call"
    /\ retry' = IF LastAttempt(retry.attempt, retry.retries)
                THEN [retry EXCEPT !.at = "thrown", !.error = e,
                                   !.outcomes = Append(@, [ok |-> FALSE, value |-> e])]
                ELSE [retry EXCEPT !.at = "wait", !.waits = Append(@, retry.delay),
                                   !.outcomes = Append(@, [ok |-> FALSE, value |-> e])]
    /\ UNCHANGED <<walletVars, pair, loader, handler, client>>

\* lines 45-48 and 39-41: the timer fired; the delay doubles, attempt++, and
\* the loop either invokes fn again or falls off its end (the function then
\* returns undefined).
TimerFires ==
    /\ retry.at = "wait"
    /\ retry' = IF LoopContinues(retry.attempt + 1, retry.retries)
                THEN [retry EXCEPT !.at = "call", !.delay = NextDelay(@),
                                   !.attempt = @ + 1, !.calls = @ + 1]
                ELSE [retry EXCEPT !.at = "returned", !.delay = NextDelay(@),
                                   !.attempt = @ + 1, !.result = "undefined"]
    /\ UNCHANGED <<walletVars, pair, loader, handler, client>>

\* lines 202-206 and 56-58, 38-41: sendBitcoin resolved with the transaction
\* id; verifyTransaction is called, it enters retryWithBackoff with the
\* default limit and delay, and gettransaction is issued for the first time.
SendBitcoinThenVerify ==
    /\ pc = "sendBitcoin"
    /\ txId' = LocalTx
    /\ pc' = "verifyTransaction"
    /\ retry' = Entered(MAX_RETRIES, DEFAULT_DELAY)
    /\ last' = Event("SendBitcoinDone", Blank)
    /\ out' = NoWrites
    /\ UNCHANGED <<pair, loader, handler, client, isVerified, currentBalance,
                   transactionHistory, status, connections,
                   malformedMessagesCount, writeFails, maxObtained, maxSinceLocal>>

\* lines 58-64: retryWithBackoff returned (verifyTransaction returns true)
\* or threw (the catch returns false)
verifyTransaction(r) == r.at = "returned"

\* lines 58-64 and 206-225: retryWithBackoff settled, verifyTransaction
\* resolves and the workflow goes on from line 206.
VerifyReturns ==
    /\ retry.at \in {"returned", "thrown"}
    /\ VerifyDone(verifyTransaction(retry))

\* ------------------------------------------------ the two peers' steps
\* p's swarm yields the connection (lines 87-95): the initial state push.
PairConnect(p) ==
    /\ pair.conn[p] = "new"
    /\ pair' = [pair EXCEPT
                  !.conn[p] = "open",
                  !.wire[Other(p)] =
                      @ \o broadcastState(pair.balance[p], pair.history[p])]
    /\ UNCHANGED <<walletVars, retry, loader, handler, client>>

\* p's data handler (lines 95-128) takes the next chunk from the connection.
PairDeliver(p) ==
    /\ pair.conn[p] = "open"
    /\ pair.wire[p] # <<>>
    /\ LET m == Decode(Head(pair.wire[p]))
           r == TryBlock(m, pair.balance[p], pair.history[p], TRUE)
           destroy == Destroys(pair.malformed[p], r.threw)
       IN  pair' = [pair EXCEPT
                      !.balance[p] = r.balance,
                      !.history[p] = r.history,
                      !.malformed[p] = CountAfter(@, r.threw),
                      !.conn[p] = IF destroy THEN "closed" ELSE @,
                      !.wire[p] = Tail(@),
                      !.wire[Other(p)] =
                          IF r.wrote
                          THEN @ \o broadcastState(pair.balance[p], pair.history[p])
                          ELSE @]
    /\ UNCHANGED <<walletVars, retry, loader, handler, client>>

\* an await of p's workflow whose result does not reach the view resolves
\* (createWallet, fundWallet, generateNewAddress, sendBitcoin).
PairAwaitResolves(p) ==
    /\ pair.pc[p] \in {"createWallet", "fundWallet", "generateNewAddress", "sendBitcoin"}
    /\ pair' = [pair EXCEPT !.pc[p] = NextStage(@)]
    /\ UNCHANGED <<walletVars, retry, loader, handler, client>>

\* lines 194 and 225 in p: currentBalance = await checkBalance(WALLET_NAME)
PairCheckBalance(p, b) ==
    /\ pair.pc[p] \in {"checkBalance1", "checkBalance2"}
    /\ pair' = [pair EXCEPT !.pc[p] = NextStage(@), !.balance[p] = b]
    /\ UNCHANGED <<walletVars, retry, loader, handler, client>>

\* lines 206-225 in p: verifyTransaction resolved; the transaction is written
\* to the connection if p's swarm holds it.
PairBroadcast(p) ==
    /\ pair.pc[p] = "verifyTransaction"
    /\ pair' = [pair EXCEPT
                  !.pc[p] = NextStage(@),
                  !.wire[Other(p)] =
                      IF pair.conn[p] = "open"
                      THEN Append(@, TransactionMessage(TxOf(p)))
                      ELSE @]
    /\ UNCHANGED <<walletVars, retry, loader, handler, client>>

\* lines 227-230 in p: an awaited wallet call rejected.
PairFails(p) ==
    /\ pair.pc[p] \in Rejecting
    /\ pair' = [pair EXCEPT !.pc[p] = "halted"]
    /\ UNCHANGED <<walletVars, retry, loader, handler, client>>

\* ------------------------------------------ the wallet-loading functions' steps
\* ensureWalletExists (line 63) or loadWallet (line 44) is called: loadwallet
\* is issued and awaited.
LoaderCalled(f) ==
    /\ loader.at \in {"idle", "returned", "thrown"}
    /\ loader.calls < MaxCalls
    /\ loader' = [NotLoading(loader.wallet) EXCEPT
                    !.fn = f, !.at = "loadwallet", !.issued = <<"loadwallet">>,
                    !.calls = loader.calls + 1]
    /\ UNCHANGED <<walletVars, retry, pair, handler, client>>

\* loadwallet settles with code (0: resolved).  Lines 63-75 and 44-53.
LoadSettles(code) ==
    /\ loader.at = "loadwallet"
    /\ code \in {LoadAnswer(loader.wallet)} \cup OtherCodes
    /\ LET todo == IF code = 0 THEN "return"
                   ELSE IF loader.fn = "ensureWalletExists" THEN EnsureOnLoadError(code)
                   ELSE LoadOnError(code)
       IN  loader' = [loader EXCEPT
                        !.loadCode = code,
                        !.faulted = code \in OtherCodes,
                        !.wallet = IF code = 0 THEN "loaded" ELSE @,
                        !.at = CASE todo = "return" -> "returned"
                                 [] todo = "throw" -> "thrown"
                                 [] todo = "create" -> "createwallet",
                        !.issued = IF todo = "create" THEN Append(@, "createwallet") ELSE @,
                        !.error = IF todo = "throw" THEN code ELSE @]
    /\ UNCHANGED <<walletVars, retry, pair, handler, client>>

\* createwallet settles with code (0: resolved).  Lines 68-69: a rejection
\* leaves the catch block as the function's own rejection.
CreateSettles(code) ==
    /\ loader.at = "createwallet"
    /\ code \in {CreateAnswer(loader.wallet)} \cup OtherCodes
    /\ loader' = [loader EXCEPT
                    !.faulted = @ \/ code \in OtherCodes,
                    !.wallet = IF code = 0 THEN "loaded" ELSE @,
                    !.at = IF code = 0 THEN "returned" ELSE "thrown",
                    !.error = code]
    /\ UNCHANGED <<walletVars, retry, pair, handler, client>>

\* between two calls: the wallet is unloaded, or removed, behind the program's back
WalletChanges(w) ==
    /\ loader.at \in {"idle", "returned", "thrown"}
    /\ loader.calls < MaxCalls
    /\ w # loader.wallet
    /\ loader' = [NotLoading(w) EXCEPT !.calls = loader.calls]
    /\ UNCHANGED <<walletVars, retry, pair, handler, client>>

\* ----------------------------------------------- the wallet operations' steps
\* the command each single-command operation awaits (lines 151, 197, 217)
FirstCommand(f) ==
    CASE f = "sendBitcoin" -> "sendtoaddress"
      [] f = "checkBalance" -> "getbalance"
      [] f = "generateNewAddress" -> "getnewaddress"

\* lines 173-175: client.wallet = walletName; client.command('getnewaddress')
FundSelects(o) ==
    [client EXCEPT
       !.wallet = client.op[o].name,
       !.op[o] = [@ EXCEPT !.at = "getnewaddress", !.rpcs = @ + 1],
       !.issued = Issue(o, "getnewaddress", client.op[o].name, client.op[o].name)]

Throws(o) == [client EXCEPT !.op[o] = [@ EXCEPT !.at = "thrown"]]

\* An operation is called and runs to its first await: the validation
\* (lines 102, 145-146, 168, 193, 213), then for sendBitcoin, checkBalance and
\* generateNewAddress the selection of the wallet and the command (lines
\* 149-151, 195-197, 215-217), for fundWallet the loadwallet of
\* ensureWalletExists (lines 171, 63), for createWallet the wallet library
\* (lines 106-126).
WalletOpCalled(o, f, name, amount) ==
    /\ client.op[o].at \in {"idle", "returned", "thrown"}
    /\ LET start == [NoOp EXCEPT !.fn = f, !.name = name, !.amount = amount,
                                 !.selected = client.wallet]
       IN  client' =
             IF validateWalletName(name) \/ (f = "sendBitcoin" /\ validateAmount(amount))
             THEN [client EXCEPT !.op[o] = [start EXCEPT !.at = "thrown"]]
             ELSE IF f = "createWallet"
             THEN [client EXCEPT !.op[o] = [start EXCEPT !.at = "initialize"]]
             ELSE IF f = "fundWallet"
             THEN [client EXCEPT
                     !.op[o] = [start EXCEPT !.at = "loadwallet", !.rpcs = 1],
                     !.issued = Issue(o, "loadwallet", client.wallet, name)]
             ELSE [client EXCEPT
                     !.wallet = name,
                     !.op[o] = [start EXCEPT !.at = FirstCommand(f), !.rpcs = 1],
                     !.issued = Issue(o, FirstCommand(f), name, name)]
    /\ UNCHANGED <<walletVars, retry, pair, loader, handler>>

\* fundWallet: the loadwallet of ensureWalletExists settles (lines 63-75),
\* then lines 173-175.
FundLoadSettles(o, code) ==
    /\ client.op[o].fn = "fundWallet"
    /\ client.op[o].at = "loadwallet"
    /\ LET todo == IF code = 0 THEN "return" ELSE EnsureOnLoadError(code)
       IN  client' =
             CASE todo = "return" -> FundSelects(o)
               [] todo = "throw" -> Throws(o)
               [] todo = "create" ->
                    [client EXCEPT
                       !.op[o] = [@ EXCEPT !.at = "createwallet", !.rpcs = @ + 1],
                       !.issued = Issue(o, "createwallet", client.wallet, client.op[o].name)]
    /\ UNCHANGED <<walletVars, retry, pair, loader, handler>>

\* fundWallet: the createwallet of ensureWalletExists settles (lines 68-69),
\* then lines 173-175.
FundCreateSettles(o, ok) ==
    /\ client.op[o].fn = "fundWallet"
    /\ client.op[o].at = "createwallet"
    /\ client' = IF ok THEN FundSelects(o) ELSE Throws(o)
    /\ UNCHANGED <<walletVars, retry, pair, loader, handler>>

\* fundWallet: getnewaddress settles (line 175); generatetoaddress is issued
\* (line 178) with the client as it is now.
FundAddressSettles(o, ok) ==
    /\ client.op[o].fn = "fundWallet"
    /\ client.op[o].at = "getnewaddress"
    /\ client' =
         IF ok
         THEN [client EXCEPT
                 !.op[o] = [@ EXCEPT !.at = "generatetoaddress", !.rpcs = @ + 1],
                 !.issued = Issue(o, "generatetoaddress", client.wallet, client.op[o].name)]
         ELSE Throws(o)
    /\ UNCHANGED <<walletVars, retry, pair, loader, handler>>

\* the last await of an operation settles: it returns, or rethrows from its
\* catch block (lines 130-133, 154-157, 180-183, 200-203, 220-223).
WalletOpSettles(o, ok) ==
    /\ \/ /\ client.op[o].fn = "fundWallet"
          /\ client.op[o].at = "generatetoaddress"
       \/ /\ client.op[o].fn \in WalletFns \ {"fundWallet"}
          /\ client.op[o].at \in {"initialize", "sendtoaddress", "getbalance",
                                   "getnewaddress"}
    /\ client' = [client EXCEPT !.op[o] = [@ EXCEPT !.at = IF ok THEN "returned"
                                                           ELSE "thrown"]]
    /\ UNCHANGED <<walletVars, retry, pair, loader, handler>>

\* ------------------------------------------------ the merge, line by line
\* lines 95-113 for a state message whose balance is higher: the handler has
\* assigned currentBalance and stands before line 114.
MergeBegins(c, m) ==
    /\ Dispatches(handler)
    /\ status[c] = "open"
    /\ Class(m, currentBalance) \in MergeClasses
    /\ Len(transactionHistory) + Len(m.txs) <= MaxHist
    /\ currentBalance' = m.balance
    /\ handler' = [at |-> "append", conn |-> c, chunk |-> m]
    /\ maxObtained' = Max(maxObtained, m.balance)
    /\ maxSinceLocal' = Max(maxSinceLocal, m.balance)
    /\ last' = Event("state-merging", Blank)
    /\ out' = NoWrites
    /\ UNCHANGED <<transactionHistory, status, connections, malformedMessagesCount,
                   writeFails, pc, txId, isVerified, retry, pair, loader, client>>

\* lines 114-127: the list is spread and pushed; an absent list throws, and
\* the catch block counts the message and may destroy the connection.
MergeEnds ==
    /\ handler.at = "append"
    /\ LET c == handler.conn
           m == handler.chunk
           threw == ~m.hasTxs
           destroy == Destroys(malformedMessagesCount[c], threw)
       IN  /\ transactionHistory' =
                  IF threw THEN transactionHistory ELSE transactionHistory \o m.txs
           /\ malformedMessagesCount' =
                  IF destroy
                  THEN Drop(malformedMessagesCount, c)
                  ELSE [malformedMessagesCount EXCEPT ![c] = CountAfter(@, threw)]
           /\ status' = IF destroy THEN [status EXCEPT ![c] = "closed"] ELSE status
           /\ connections' = IF destroy THEN Remove(connections, c) ELSE connections
           /\ writeFails' = IF destroy THEN writeFails \ {c} ELSE writeFails
           /\ last' = Event(IF threw THEN "state-higher-no-list" ELSE "state-higher", m)
    /\ handler' = NoHandler
    /\ out' = NoWrites
    /\ UNCHANGED <<currentBalance, pc, txId, maxObtained, maxSinceLocal,
                   isVerified, retry, pair, loader, client>>

\* ----------------------------------------------------------- specifications
PeerEvent ==
    \/ \E c \in Conns : Connect(c)
    \/ \E c \in Conns, m \in Chunks : OnData(c, m)
    \/ \E c \in Conns : PeerClose(c)

Workflow ==
    \/ CreateWalletDone
    \/ FundWalletDone
    \/ \E b \in BackendBalances : CheckInitialBalance(b)
    \/ GenerateAddressDone
    \/ SendBitcoinDone
    \/ \E v \in BOOLEAN : VerifyDone(v)
    \/ \E b \in BackendBalances : CheckUpdatedBalance(b)
    \/ WorkflowFails

Next == PeerEvent \/ Workflow

\* the program on a transport whose writes never throw
Spec == Init /\ [][Next]_vars

\* the peer sessions alone (the workflow has not got past its first await)
SpecPeer == Init /\ [][PeerEvent]_vars

\* The whole program again, its inbound traffic cut down to one chunk of each
\* kind that acts: counted, answered, appended, and a state message of every
\* balance.
CoreChunks ==
    {[Blank EXCEPT !.parse = "garbage"],
     [Blank EXCEPT !.type = "state-request"],
     [Blank EXCEPT !.type = "transaction", !.hasData = TRUE, !.record = "a"]}
    \cup {[Blank EXCEPT !.type = "state", !.hasData = TRUE,
                        !.hasBalance = TRUE, !.balance = b,
                        !.hasTxs = TRUE, !.txs = <<"a">>] : b \in Balances}

NextCore ==
    \/ \E c \in Conns : Connect(c)
    \/ \E c \in Conns, m \in CoreChunks : OnData(c, m)
    \/ \E c \in Conns : PeerClose(c)
    \/ Workflow

SpecCore == Init /\ [][NextCore]_vars

\* the same on a transport where a connection can break
NextFault == NextCore \/ \E c \in Conns : ConnBreak(c)

SpecFault == Init /\ [][NextFault]_vars

\* the program with swarm-level errors reported now and then
NextSwarm == NextCore \/ SwarmError

SpecSwarm == Init /\ [][NextSwarm]_vars

\* retryWithBackoff alone: entered with an attempt limit and a first delay,
\* around a function that resolves or rejects as it pleases
InitRetry ==
    /\ ModuleLoaded
    /\ retry \in {Entered(n, d) : n \in 1..MaxAttempts, d \in BaseDelays}
    /\ pair = NoPair
    /\ loader = NotLoading("loaded")
    /\ handler = NoHandler
    /\ client = NoClientUse

NextRetry ==
    \/ \E v \in FnValues : FnResolves(v)
    \/ \E e \in FnErrors : FnRejects(e)
    \/ TimerFires

SpecRetry == InitRetry /\ [][NextRetry]_vars

\* every call of fn settles and every timer fires
SpecRetryLive == SpecRetry /\ WF_vars(NextRetry)


\* two instances of the script, each just loaded, on one topic
InitPair ==
    /\ ModuleLoaded
    /\ retry = NotCalled
    /\ loader = NotLoading("loaded")
    /\ handler = NoHandler
    /\ client = NoClientUse
    /\ pair = [NoPair EXCEPT !.pc = [p \in Peers |-> "createWallet"]]

NextPair ==
    \/ \E p \in Peers : PairConnect(p)
    \/ \E p \in Peers : PairDeliver(p)
    \/ \E p \in Peers : PairAwaitResolves(p)
    \/ \E p \in Peers, b \in BackendBalances : PairCheckBalance(p, b)
    \/ \E p \in Peers : PairBroadcast(p)
    \/ \E p \in Peers : PairFails(p)

SpecPair == InitPair /\ [][NextPair]_vars

\* the wallet-loading functions alone, called one after the other against a
\* node that holds the wallet in any state
InitLoader ==
    /\ ModuleLoaded
    /\ retry = NotCalled
    /\ pair = NoPair
    /\ loader \in {NotLoading(w) : w \in WalletStates}
    /\ handler = NoHandler
    /\ client = NoClientUse

NextLoader ==
    \/ \E f \in LoaderFns : LoaderCalled(f)
    \/ \E code \in {0} \cup ErrorCodes : LoadSettles(code)
    \/ \E code \in {0} \cup ErrorCodes : CreateSettles(code)
    \/ \E w \in WalletStates : WalletChanges(w)

SpecLoader == InitLoader /\ [][NextLoader]_vars

\* The program with the merge of a state message taken line by line: every
\* other callback, and every resumption of the workflow, waits for the stack
\* to be empty.
StepChunks ==
    CoreChunks
    \cup {[Blank EXCEPT !.type = "state", !.hasData = TRUE,
                        !.hasBalance = TRUE, !.balance = b] : b \in Balances}

NextSteps ==
    \/ \E c \in Conns : Dispatches(handler) /\ Connect(c)
    \/ \E c \in Conns, m \in StepChunks :
          /\ Dispatches(handler)
          /\ Class(m, currentBalance) \notin MergeClasses
          /\ OnData(c, m)
    \/ \E c \in Conns : Dispatches(handler) /\ PeerClose(c)
    \/ Dispatches(handler) /\ Workflow
    \/ \E c \in Conns, m \in StepChunks : MergeBegins(c, m)
    \/ MergeEnds

SpecSteps == Init /\ [][NextSteps]_vars

\* the whole program with peers that may send back the transaction it
\* broadcast, alone or inside a state batch
EchoChunks ==
    CoreChunks
    \cup {[Blank EXCEPT !.type = "transaction", !.hasData = TRUE, !.record = LocalTx],
          [Blank EXCEPT !.type = "state", !.hasData = TRUE,
                        !.hasBalance = TRUE, !.balance = MaxBalance,
                        !.hasTxs = TRUE, !.txs = <<LocalTx>>]}

NextEcho ==
    \/ \E c \in Conns : Connect(c)
    \/ \E c \in Conns, m \in EchoChunks : OnData(c, m)
    \/ \E c \in Conns : PeerClose(c)
    \/ Workflow

SpecEcho == Init /\ [][NextEcho]_vars

\* the workflow with verifyTransaction taken attempt by attempt, while peers
\* connect and disconnect
NextVerify ==
    \/ \E c \in Conns : Connect(c)
    \/ \E c \in Conns : PeerClose(c)
    \/ CreateWalletDone
    \/ FundWalletDone
    \/ \E b \in BackendBalances : CheckInitialBalance(b)
    \/ GenerateAddressDone
    \/ SendBitcoinThenVerify
    \/ \E v \in FnValues : FnResolves(v)
    \/ \E e \in FnErrors : FnRejects(e)
    \/ TimerFires
    \/ VerifyReturns
    \/ \E b \in BackendBalances : CheckUpdatedBalance(b)
    \/ WorkflowFails

SpecVerify == Init /\ [][NextVerify]_vars

\* the answers of loadwallet explored for fundWallet
FundLoadCodes == {0, WALLET_NOT_FOUND, WALLET_ALREADY_LOADED, -4}

\* the wallet operations called one after the other, with arguments of every kind
NextValidate ==
    \/ \E f \in WalletFns \ {"sendBitcoin"}, name \in NameValues :
          WalletOpCalled(1, f, name, Undef)
    \/ \E name \in NameValues, amount \in AmountValues :
          WalletOpCalled(1, "sendBitcoin", name, amount)
    \/ \E code \in FundLoadCodes : FundLoadSettles(1, code)
    \/ \E ok \in BOOLEAN : FundCreateSettles(1, ok)
    \/ \E ok \in BOOLEAN : FundAddressSettles(1, ok)
    \/ \E ok \in BOOLEAN : WalletOpSettles(1, ok)

SpecValidate == Init /\ [][NextValidate]_vars

\* several wallet operations in progress at once, for two wallets, their
\* arguments valid
NextClient ==
    \/ \E o \in Ops, f \in WalletFns, name \in ValidNames :
          WalletOpCalled(o, f, name, Num(1))
    \/ \E o \in Ops, code \in FundLoadCodes : FundLoadSettles(o, code)
    \/ \E o \in Ops, ok \in BOOLEAN : FundCreateSettles(o, ok)
    \/ \E o \in Ops, ok \in BOOLEAN : FundAddressSettles(o, ok)
    \/ \E o \in Ops, ok \in BOOLEAN : WalletOpSettles(o, ok)

SpecClient == Init /\ [][NextClient]_vars

\* =================================================================== claims
IsPrefix(s, t) == Len(s) <= Len(t) /\ SubSeq(t, 1, Len(s)) = s

DataClasses == {"unparseable", "null", "no-type", "unknown-type", "state-request",
                "transaction", "transaction-no-payload", "state-no-payload",
                "state-no-balance", "state-not-higher", "state-higher",
                "state-higher-no-list"}

\* the step counted one malformed message on exactly one session: its counter
\* went up by one, or it stood at the limit and the session was destroyed
CountedOne ==
    \E c \in Sessions :
        /\ \/ c \in Sessions' /\ malformedMessagesCount'[c] = malformedMessagesCount[c] + 1
           \/ c \notin Sessions' /\ malformedMessagesCount[c] = MALFORMED_LIMIT
        /\ \A d \in Sessions \ {c} :
              d \in Sessions' /\ malformedMessagesCount'[d] = malformedMessagesCount[d]

\* C1: after any sequence of state messages handled on any connections the
\* balance is the maximum of the initial balance and every balance carried.
C1_BalanceIsMaxOfStates == currentBalance = maxObtained

C1_Witness ==
    /\ last.class = "state-not-higher"
    /\ currentBalance > 0
    /\ Cardinality(Sessions) > 1

\* C2: a state message whose balance is not above the local balance changes
\* neither the balance nor the history nor any malformed counter.
C2_LowerStateIsNoOp ==
    [][last'.class = "state-not-higher" =>
          /\ currentBalance' = currentBalance
          /\ transactionHistory' = transactionHistory
          /\ malformedMessagesCount' = malformedMessagesCount]_vars

C2_Witness ==
    /\ last.class = "state-not-higher"
    /\ currentBalance > 0
    /\ transactionHistory # <<>>

\* C3 as stated: every transaction message, with or without a payload,
\* appends exactly one record and leaves the balance alone.
C3_EveryTransactionAppends ==
    [][last'.class \in {"transaction", "transaction-no-payload"} =>
          /\ Len(transactionHistory') = Len(transactionHistory) + 1
          /\ IsPrefix(transactionHistory, transactionHistory')
          /\ currentBalance' = currentBalance]_vars

\* C3 (amended): a transaction message that carries a payload appends that
\* record last, whatever the balance and whether or not the record is already
\* there; one without a payload appends nothing and is counted as malformed.
C3_PayloadTransactionAppends ==
    [][/\ last'.class = "transaction" =>
            /\ transactionHistory' = Append(transactionHistory, last'.chunk.record)
            /\ currentBalance' = currentBalance
            /\ malformedMessagesCount' = malformedMessagesCount
       /\ last'.class = "transaction-no-payload" =>
            /\ transactionHistory' = transactionHistory
            /\ currentBalance' = currentBalance
            /\ CountedOne]_vars

C3_Witness ==
    /\ last.class = "transaction"
    /\ transactionHistory = <<"a", "a">>
    /\ currentBalance > 0

\* C4: a state message with a greater balance and a transactions list sets
\* the balance to the incoming value and appends the list in its order; every
\* step leaves the earlier history as a prefix of the later one.
C4_MergeAppendsBatch ==
    [][/\ last'.class = "state-higher" =>
            /\ currentBalance' = last'.chunk.balance
            /\ transactionHistory' = transactionHistory \o last'.chunk.txs
       /\ IsPrefix(transactionHistory, transactionHistory')]_vars

C4_Witness ==
    /\ last.class = "state-higher"
    /\ last.chunk.txs = <<"b">>
    /\ transactionHistory = <<"a", "b">>
    /\ currentBalance = last.chunk.balance

\* C5 as stated: the balance is never below a balance value obtained so far,
\* from the backend or from a peer.
C5_BalanceIsMaxEverObtained == currentBalance >= maxObtained

\* C5 (amended): the balance is the maximum of the value the workflow last
\* assigned (0 before the first assignment) and the balances of the state
\* messages handled since.
C5_BalanceIsMaxSinceLocalRead == currentBalance = maxSinceLocal

C5_Witness ==
    /\ pc = "done"
    /\ currentBalance < maxObtained


ThrowingClasses == {"unparseable", "null", "transaction-no-payload",
                    "state-no-payload", "state-higher-no-list"}

C7_DestroyedOnFourthMalformed ==
    [][/\ \A c \in Sessions' : malformedMessagesCount'[c] <= MALFORMED_LIMIT
       /\ \A c \in Sessions :
            /\ (last'.class \in DataClasses /\ c \notin Sessions') =>
                  /\ malformedMessagesCount[c] = MALFORMED_LIMIT
                  /\ last'.class \in ThrowingClasses
                  /\ status'[c] = "closed"
                  /\ out' = NoWrites
            /\ (last'.class \in ThrowingClasses /\ c \in Sessions'
                    /\ malformedMessagesCount'[c] # malformedMessagesCount[c]) =>
                  /\ malformedMessagesCount'[c] <= MALFORMED_LIMIT
                  /\ status'[c] = "open"]_vars

C7_Witness ==
    /\ last.class = "unparseable"
    /\ status[1] = "closed"
    /\ status[2] = "new"
    /\ out = NoWrites


C9_BroadcastSurvivesWriteFailure ==
    last.class = "VerifyDone" =>
        /\ pc = "checkBalance2"
        /\ \A c \in Active \ writeFails : out[c] = <<TransactionMessage(txId)>>

\* C10: the step that opens a connection writes exactly one state message to
\* it, the view of that moment, and registers the session; every other state
\* message written to a connection answers a state-request handled on it.
C10_OneStatePushOnConnect ==
    [][\A c \in Conns :
          /\ (status[c] = "new" /\ status'[c] # "new") =>
                /\ last'.class = "connect"
                /\ status'[c] = "open"
                /\ out' = [NoWrites EXCEPT
                             ![c] = <<StateMessage(currentBalance, transactionHistory)>>]
                /\ out'[c][1].walletName = WALLET_NAME
                /\ c \in Sessions' /\ malformedMessagesCount'[c] = 0
                /\ currentBalance' = currentBalance
                /\ transactionHistory' = transactionHistory
          /\ (out'[c] # <<>> /\ out'[c][1].type = "state") =>
                /\ Len(out'[c]) = 1
                /\ last'.class \in {"connect", "state-request"}
                /\ last'.class = "state-request" => c \in Sessions]_vars

C10_Witness ==
    /\ last.class = "connect"
    /\ status[2] = "open"
    /\ currentBalance > 0
    /\ transactionHistory # <<>>
    /\ out[2] = <<StateMessage(currentBalance, transactionHistory)>>

\* C11: handling a state-request on a connection writes exactly one state
\* message, to that connection and to no other, carrying the balance and the
\* history of the moment the request is handled; the view and the malformed
\* counters are unchanged.
C11_StateRequestAnsweredFresh ==
    [][/\ \A c \in Conns :
            OnData(c, StateRequest) =>
                /\ out' = [NoWrites EXCEPT
                             ![c] = <<StateMessage(currentBalance, transactionHistory)>>]
                /\ currentBalance' = currentBalance
                /\ transactionHistory' = transactionHistory
                /\ malformedMessagesCount' = malformedMessagesCount
                /\ status' = status
       /\ last'.class = "state-request" => \E c \in Sessions : OnData(c, StateRequest)]_vars

\* the only connection there has been was opened on the view (0, <<>>); its
\* request is answered with the view built since
C11_Witness ==
    /\ last.class = "state-request"
    /\ status = [c \in Conns |-> IF c = 1 THEN "open" ELSE "new"]
    /\ currentBalance > 0
    /\ Len(transactionHistory) = MaxHist
    /\ out[1] = <<StateMessage(currentBalance, transactionHistory)>>

\* the waits after failures 1..k of a call entered with the delay base
Backoff(base, k) == [i \in 1..k |-> base * Pow2(i - 1)]

Failures(outcomes) == {i \in 1..Len(outcomes) : ~outcomes[i].ok}

\* C12: when fn fails k times and then succeeds, k below the attempt limit,
\* retryWithBackoff has invoked it exactly k+1 times, returns the value of
\* the successful call, has waited base*2^(i-1) after the i-th failure, and
\* makes no call after the success.
C12_RetriesUntilFirstSuccess ==
    [][/\ retry'.at = "returned" =>
            LET k == Len(retry'.outcomes) - 1
            IN  /\ Failures(retry'.outcomes) = 1..k
                /\ k < retry'.retries
                /\ retry'.calls = k + 1
                /\ retry'.result = retry'.outcomes[k + 1].value
                /\ retry'.waits = Backoff(retry'.base, k)
       /\ retry.at = "returned" => retry' = retry
       /\ retry'.calls \in {Len(retry'.outcomes), Len(retry'.outcomes) + 1}]_vars

\* two failures, then success, with the defaults: 500 ms, then 1000 ms
C12_Witness ==
    /\ retry.at = "returned"
    /\ retry.retries = MAX_RETRIES
    /\ retry.base = DEFAULT_DELAY
    /\ retry.calls = 3
    /\ retry.waits = <<500, 1000>>
    /\ retry.result = "v2"

WorkflowClasses == {"CreateWalletDone", "FundWalletDone", "CheckInitialBalance",
                    "GenerateAddressDone", "SendBitcoinDone", "VerifyDone",
                    "CheckUpdatedBalance", "WorkflowFails"}

\* C14: the step in which a workflow call fails halts the run and touches
\* neither the view nor any session; a halted run takes no further step; a
\* transaction is written to peers only by the broadcast step and only with
\* the id the send returned; while the run is halted every open session still
\* handles inbound data.
C14_FailedStepHaltsRunOnly ==
    [][/\ last'.class = "WorkflowFails" =>
            /\ pc \in Rejecting /\ pc' = "halted"
            /\ out' = NoWrites
            /\ UNCHANGED <<currentBalance, transactionHistory, status, connections,
                           malformedMessagesCount, txId>>
       /\ pc = "halted" =>
            /\ pc' = "halted"
            /\ last'.class \notin WorkflowClasses
            /\ txId' = txId
       /\ \A c \in Conns :
            (out'[c] # <<>> /\ out'[c][1].type = "transaction") =>
                /\ last'.class = "VerifyDone"
                /\ txId # "none"
                /\ out'[c] = <<TransactionMessage(txId)>>
       /\ pc' = "halted" =>
            \A c \in Conns :
                status'[c] = "open" =>
                    /\ c \in Sessions'
                    /\ (ENABLED OnData(c, StateRequest))']_vars

\* the send failed: nothing was broadcast, and a session opened before still
\* answers a state request with what it has merged since
C14_Witness ==
    /\ pc = "halted"
    /\ txId = "none"
    /\ last.class = "state-request"
    /\ status = [c \in Conns |-> "open"]
    /\ currentBalance > 0
    /\ out[1] = <<StateMessage(currentBalance, transactionHistory)>>

\* both workflows have run to their end, both ends of the connection are
\* open and nothing is in flight
PairSettled ==
    \A p \in Peers :
        /\ pair.pc[p] = "done"
        /\ pair.conn[p] = "open"
        /\ pair.wire[p] = <<>>

\* C15: once two connected peers have finished their workflows and nothing is
\* in flight between them, they hold the same balance.
C15_PairReconciles ==
    PairSettled => pair.balance[1] = pair.balance[2]

\* C16: a parsed message whose type is none of the three recognized kinds
\* changes neither balance nor history, writes nothing, counts nothing and
\* closes nothing, whatever the session's malformed counter is.
C16_UnknownKindIsInert ==
    [][last'.class = "unknown-type" =>
          /\ currentBalance' = currentBalance
          /\ transactionHistory' = transactionHistory
          /\ out' = NoWrites
          /\ malformedMessagesCount' = malformedMessagesCount
          /\ status' = status
          /\ connections' = connections]_vars

\* an unknown kind handled while a session stands at the limit: still open
C16_Witness ==
    /\ last.class = "unknown-type"
    /\ status = [c \in Conns |-> "open"]
    /\ \A c \in Sessions : malformedMessagesCount[c] = MALFORMED_LIMIT

LoaderEnded == loader.at \in {"returned", "thrown"}

\* C17: ensureWalletExists returns normally when loadwallet succeeds, when it
\* fails with -35, and when it fails with -18 and the createwallet it then
\* issues succeeds; so with a node that answers by the wallet's state it
\* returns whether the wallet was absent, on disk or loaded, and the wallet is
\* loaded afterwards.  Any other failure of loadwallet is rethrown and no
\* createwallet is issued.  loadWallet returns normally on success and on
\* -35, issues no createwallet and rethrows every other code, -18 included.
C17_LoadOrCreateIsIdempotent ==
    /\ (LoaderEnded /\ loader.fn = "ensureWalletExists") =>
          /\ loader.issued = IF loader.loadCode = WALLET_NOT_FOUND
                             THEN <<"loadwallet", "createwallet">>
                             ELSE <<"loadwallet">>
          /\ loader.loadCode \in {0, WALLET_ALREADY_LOADED} => loader.at = "returned"
          /\ loader.loadCode \in OtherCodes =>
                loader.at = "thrown" /\ loader.error = loader.loadCode
          /\ ~loader.faulted =>
                /\ loader.at = "returned"
                /\ loader.wallet = "loaded"
                /\ (loader.entry = "absent") = (Len(loader.issued) = 2)
          /\ loader.at = "thrown" => loader.faulted /\ loader.error \in OtherCodes
    /\ (LoaderEnded /\ loader.fn = "loadWallet") =>
          /\ loader.issued = <<"loadwallet">>
          /\ loader.at = "returned" <=> loader.loadCode \in {0, WALLET_ALREADY_LOADED}
          /\ loader.at = "thrown" => loader.error = loader.loadCode
          /\ (loader.entry = "absent" /\ ~loader.faulted) =>
                loader.at = "thrown" /\ loader.error = WALLET_NOT_FOUND
    /\ loader.at \in {"loadwallet", "createwallet"} => loader.fn \in LoaderFns

\* a second call finds the wallet absent: loadwallet fails with -18, the
\* wallet is created and the call returns
C17_Witness ==
    /\ loader.fn = "ensureWalletExists"
    /\ loader.at = "returned"
    /\ loader.entry = "absent"
    /\ loader.loadCode = WALLET_NOT_FOUND
    /\ loader.issued = <<"loadwallet", "createwallet">>
    /\ loader.wallet = "loaded"
    /\ loader.calls = 2

\* C18: the step that handles a swarm error leaves balance, history, every
\* session, its counter and its connection as they were, and writes nothing;
\* every open session handles inbound data afterwards.
C18_SwarmErrorChangesNothing ==
    [][last'.class = "swarm-error" =>
          /\ UNCHANGED <<currentBalance, transactionHistory, status, connections,
                         malformedMessagesCount, writeFails, pc, txId>>
          /\ out' = NoWrites
          /\ \A c \in Conns :
                status[c] = "open" =>
                    /\ c \in Sessions'
                    /\ (ENABLED OnData(c, StateRequest))']_vars

\* a swarm error with both sessions open, one at the malformed limit, the
\* workflow under way
C18_Witness ==
    /\ last.class = "swarm-error"
    /\ status = [c \in Conns |-> "open"]
    /\ malformedMessagesCount[1] = MALFORMED_LIMIT
    /\ currentBalance > 0
    /\ transactionHistory # <<>>
    /\ pc = "sendBitcoin"

\* C19: the balance is never negative, whatever peers send (state messages
\* advertising a negative balance included), the backend's balance query
\* returning non-negative values.
C19_BalanceNeverNegative == currentBalance >= 0

\* the backend reported 0 and a peer then advertised a negative balance
C19_Witness ==
    /\ last.class = "state-not-higher"
    /\ last.chunk.hasBalance /\ last.chunk.balance < 0
    /\ pc = "generateNewAddress"
    /\ currentBalance = 0
    /\ maxObtained > 0

\* the step wrote a state message to some connection
WroteState(c) == out'[c] # <<>> /\ out'[c][1].type = "state"

C21_CounterIsPerSession ==
    [][\A c \in Conns :
          /\ (c \notin Sessions /\ c \in Sessions') =>
                status[c] = "new" /\ malformedMessagesCount'[c] = 0
          /\ (c \in Sessions /\ c \in Sessions') =>
                /\ malformedMessagesCount'[c] >= malformedMessagesCount[c]
                /\ malformedMessagesCount'[c] # malformedMessagesCount[c] =>
                      /\ malformedMessagesCount'[c] = malformedMessagesCount[c] + 1
                      /\ \E m \in Chunks :
                            /\ OnData(c, m)
                            /\ Class(m, currentBalance) \in ThrowingClasses
          /\ (last'.class \in DataClasses /\ status'[c] # status[c]) =>
                /\ status[c] = "open" /\ status'[c] = "closed"
                /\ \E m \in Chunks :
                      /\ OnData(c, m)
                      /\ Class(m, currentBalance) \in ThrowingClasses
                /\ \A d \in Conns \ {c} :
                      /\ status'[d] = status[d]
                      /\ d \in Sessions =>
                            /\ d \in Sessions'
                            /\ malformedMessagesCount'[d] = malformedMessagesCount[d]
          /\ (last'.class \in DataClasses /\ c \in Sessions /\ c \in Sessions'
                  /\ malformedMessagesCount'[c] # malformedMessagesCount[c]) =>
                \A d \in Conns \ {c} :
                    /\ status'[d] = status[d]
                    /\ d \in Sessions =>
                          /\ d \in Sessions'
                          /\ malformedMessagesCount'[d] = malformedMessagesCount[d]]_vars

\* the first connection has been destroyed for its malformed input; the
\* second, open all along, still counts 0
C21_Witness ==
    /\ last.class = "null"
    /\ status[1] = "closed"
    /\ status[2] = "open"
    /\ malformedMessagesCount[2] = 0
    /\ currentBalance > 0

\* C22: the broadcast step writes the one transaction message exactly once to
\* each connection active at that moment and to no other; no other step
\* writes a transaction message, and the workflow never comes back to the
\* broadcast, so the message is not sent again and a connection opened later
\* gets only the state push.
C22_BroadcastOnceToActive ==
    [][/\ last'.class = "VerifyDone" =>
            /\ pc = "verifyTransaction" /\ pc' = "checkBalance2"
            /\ out' = [c \in Conns |->
                         IF c \in Active THEN <<TransactionMessage(txId)>> ELSE <<>>]
       /\ (\E c \in Conns : \E i \in 1..Len(out'[c]) : out'[c][i].type = "transaction") =>
            last'.class = "VerifyDone"
       /\ pc \in {"checkBalance2", "done", "halted"} =>
            pc' \in {"checkBalance2", "done", "halted"}
       /\ \A c \in Conns :
            (status[c] = "new" /\ status'[c] = "open") =>
                out' = [NoWrites EXCEPT
                          ![c] = <<StateMessage(currentBalance, transactionHistory)>>]]_vars

\* the second peer connects after the broadcast: it gets the state push only
C22_Witness ==
    /\ last.class = "connect"
    /\ pc = "checkBalance2"
    /\ txId = LocalTx
    /\ status = [c \in Conns |-> "open"]
    /\ out[1] = <<>>
    /\ out[2] = <<StateMessage(currentBalance, transactionHistory)>>

\* C24: verifyTransaction never throws: the workflow leaves its await only
\* once the lookup has settled, with true when a call of gettransaction
\* succeeded within the MAX_RETRIES attempts and with false when all
\* MAX_RETRIES attempts failed; in both cases the step writes the transaction
\* to every active connection and calls checkBalance again (the run does not
\* halt there), and the run is never past the broadcast without a result.
C24_VerifyNeverThrows ==
    [][/\ (pc = "verifyTransaction" /\ pc' # pc) =>
            /\ retry.at \in {"returned", "thrown"}
            /\ isVerified' = "true" <=>
                   /\ retry.at = "returned"
                   /\ retry.calls <= MAX_RETRIES
                   /\ retry.outcomes[Len(retry.outcomes)].ok
            /\ isVerified' = "false" <=>
                   /\ retry.at = "thrown"
                   /\ retry.calls = MAX_RETRIES
                   /\ Failures(retry.outcomes) = 1..MAX_RETRIES
            /\ isVerified' \in {"true", "false"}
            /\ pc' = "checkBalance2"
            /\ out' = [c \in Conns |->
                         IF c \in Active THEN <<TransactionMessage(txId)>> ELSE <<>>]
            /\ (ENABLED (\E b \in BackendBalances : CheckUpdatedBalance(b)))'
       /\ pc' \in {"checkBalance2", "done"} => isVerified' \in {"true", "false"}]_vars

\* all five lookups failed: the transaction has just been written to the
\* peer all the same, and checkBalance is awaited
C24_Witness ==
    /\ last.class = "VerifyDone"
    /\ isVerified = "false"
    /\ retry.at = "thrown"
    /\ retry.calls = MAX_RETRIES
    /\ pc = "checkBalance2"
    /\ status[1] = "open"
    /\ out[1] = <<TransactionMessage(LocalTx)>>

\* C25: whenever the handling of an inbound message counts it as malformed
\* (the session's counter goes up, or the session is destroyed for it), the
\* balance and the transaction history are what they were before the message.
C25_CountedMessageChangesNothing ==
    [][(last'.class \in DataClasses /\ CountedOne) =>
          UNCHANGED <<currentBalance, transactionHistory>>]_vars

\* what the claim calls a name that is not a non-empty, non-blank string
NotAName(v) == v.t # "string" \/ \A i \in 1..Len(v.s) : v.s[i] = " "

\* what the claim calls an amount that is not a positive number
NotPositiveNumber(v) == ~(v.t = "number" /\ v.n > 0)

\* C23: every wallet operation called with a name that is not a non-empty,
\* non-blank string, and sendBitcoin called with an amount that is not a
\* positive number, has thrown without issuing any RPC command and with the
\* client's selected wallet as it was at the call.
C23_InvalidArgumentsThrowFirst ==
    \A o \in Ops :
        LET op == client.op[o]
        IN  (/\ op.fn # "none"
             /\ \/ NotAName(op.name)
                \/ op.fn = "sendBitcoin" /\ NotPositiveNumber(op.amount))
            => /\ op.at = "thrown"
               /\ op.rpcs = 0
               /\ client.wallet = op.selected

\* the records a handled chunk brings into the history
Received(e) ==
    IF e.class = "transaction" THEN <<e.chunk.record>>
    ELSE IF e.class = "state-higher" THEN e.chunk.txs
    ELSE <<>>

InSeq(x, seq) == \E i \in 1..Len(seq) : seq[i] = x

\* C27: the local history grows only in a step that handles a peer's
\* transaction message or merges a peer's state batch, and by exactly the
\* records that message carried; no workflow step (sending and broadcasting
\* the local transaction included) touches it, so the local transaction
\* enters the history only when a peer's message carried it, and every state
\* message written carries the history as it is, with the local transaction
\* only if it got there that way.
C27_HistoryHoldsPeerRecordsOnly ==
    [][/\ transactionHistory' = transactionHistory \o Received(last')
       /\ last'.class \in WorkflowClasses \cup {"connect", "state-request"} =>
             transactionHistory' = transactionHistory
       /\ (InSeq(LocalTx, transactionHistory') /\ ~InSeq(LocalTx, transactionHistory)) =>
             InSeq(LocalTx, Received(last'))
       /\ \A c \in Conns : \A i \in 1..Len(out'[c]) :
             out'[c][i].type = "state" =>
                /\ out'[c][i].transactions = transactionHistory'
                /\ InSeq(LocalTx, out'[c][i].transactions) =>
                      InSeq(LocalTx, transactionHistory)]_vars

\* the transaction was sent and broadcast, a peer's record is in the history:
\* the state pushed to a peer connecting now lists that record only
C27_Witness ==
    /\ last.class = "connect"
    /\ pc \in {"checkBalance2", "done"}
    /\ txId = LocalTx
    /\ transactionHistory = <<"a">>
    /\ out[2] = <<StateMessage(currentBalance, <<"a">>)>>

\* the commands that act on the selected wallet
WalletScoped == {"sendtoaddress", "getbalance", "getnewaddress", "generatetoaddress"}

\* C26: every wallet-scoped RPC command that an operation for wallet W issues
\* is issued while the client's selected wallet is W, also when operations
\* for different wallets are in progress at once and the operation was
\* suspended between two commands.
C26_CommandsUnderOwnSelection ==
    client.issued.cmd \in WalletScoped => client.issued.wallet = client.issued.name

====
